---- MODULE Spec2Model ----
(***************************************************************************)
(* A model of the FastPI aggregation core:                                 *)
(*   - fastpi/http_client.py  : the lazily created shared HTTP client,     *)
(*   - fastpi/services/market.py, fastpi/models/market.py : the market     *)
(*     fan-out / fan-in over three providers and the derived median,       *)
(*   - fastpi/services/news.py : the news fan-out / fan-in and the         *)
(*     per-target article extraction.                                      *)
(* Each subsystem has its own specification over the shared variables; the *)
(* variables of the other subsystems stay at their initial value.          *)
(***************************************************************************)
EXTENDS Integers, Sequences, FiniteSets, TLC

VARIABLES
    client,     \* http_client._client: 0 (None) or the id of the shared client
    lock,       \* http_client._client_lock: TRUE while held
    created,    \* number of httpx.AsyncClient objects constructed so far
    cstate,     \* per client id: "unborn", "open", "closing" (aclose running), "closed"
    gpc,        \* per get_http_client caller: "idle", "wait", "locked", "done"
    gret,       \* per get_http_client caller: the client it returned
    spc,        \* per shutdown_http_client caller: "idle", "closing", "done"
    starget,    \* per shutdown caller: the client whose aclose() it awaits
    mpc,        \* fetch_symbol: "idle", "gather" (awaiting asyncio.gather), "done"
    mbase,      \* fetch_symbol: base (uppercased)
    mquote,     \* fetch_symbol: quote (uppercased)
    mresp,      \* per provider task: the upstream's answer, once it has arrived
    mresults,   \* per provider task: its outcome, Pending until it completes
    morder,     \* the provider tasks in the order they completed
    snapshot,   \* the MarketAggregate fetch_symbol returned
    npc,        \* fetch_all: "idle", "gather" (awaiting asyncio.gather), "done"
    ntargets,   \* news.SCRAPE_TARGETS, the configured tuple of ScrapeTarget
    ncap,       \* fetch_all: limit_per_source
    nresp,      \* per target task: the upstream's answer, once it has arrived
    nresults,   \* per target task: its outcome, Pending until it completes
    norder,     \* the target tasks in the order they completed
    aggregate   \* the NewsAggregate fetch_all returned

newsVars == <<npc, ntargets, ncap, nresp, nresults, norder, aggregate>>

marketVars == <<mpc, mbase, mquote, mresp, mresults, morder, snapshot>>

httpVars == <<client, lock, created, cstate, gpc, gret, spc, starget>>

----------------------------------------------------------------------------
(* Shared HTTP transport: fastpi/http_client.py                            *)

\* Concurrent callers of get_http_client (request handlers on the event loop).
NumGetters == 3
\* Concurrent callers of shutdown_http_client.
NumClosers == 2

Getters == 1..NumGetters
Closers == 1..NumClosers
\* Every caller constructs at most one client, so ids never run out.
ClientIds == 1..NumGetters

\* _client = None
NoClient == 0

HttpInit ==
    /\ client = NoClient
    /\ lock = FALSE
    /\ created = 0
    /\ cstate = [c \in ClientIds |-> "unborn"]
    /\ gpc = [p \in Getters |-> "idle"]
    /\ gret = [p \in Getters |-> NoClient]
    /\ spc = [q \in Closers |-> "idle"]
    /\ starget = [q \in Closers |-> NoClient]

\* The inner "if _client is None" of get_http_client, evaluated under the lock.
MutNeedsCreate(c) == TRUE
NeedsCreate(c) == c = NoClient

\* The value get_http_client leaves in _client when it constructs client id n.
StoreCreated(c, n) == n

\* What shutdown_http_client leaves in _client after aclose() returned.
MutClearedClient(c) == c
ClearedClient(c) == NoClient

\* get_http_client, up to the lock: the outer "if _client is None".  A caller
\* that sees a client returns it at once; otherwise it goes on to
\* "async with _client_lock".  That await is taken as a point where other
\* coroutines may run, whether or not the lock is free.
GetCheck(p) ==
    /\ gpc[p] = "idle"
    /\ IF client # NoClient
       THEN /\ gpc' = [gpc EXCEPT ![p] = "done"]
            /\ gret' = [gret EXCEPT ![p] = client]
       ELSE /\ gpc' = [gpc EXCEPT ![p] = "wait"]
            /\ gret' = gret
    /\ UNCHANGED <<client, lock, created, cstate, spc, starget>>

\* "async with _client_lock": the lock is taken when it is free.
GetAcquire(p) ==
    /\ gpc[p] = "wait"
    /\ lock = FALSE
    /\ lock' = TRUE
    /\ gpc' = [gpc EXCEPT ![p] = "locked"]
    /\ UNCHANGED <<client, created, cstate, gret, spc, starget>>

\* The body under the lock (no await inside), the release and "return _client".
GetCreate(p) ==
    /\ gpc[p] = "locked"
    /\ IF NeedsCreate(client)
       THEN /\ created < NumGetters
            /\ created' = created + 1
            /\ client' = StoreCreated(client, created + 1)
            /\ cstate' = [cstate EXCEPT ![created + 1] = "open"]
            /\ gret' = [gret EXCEPT ![p] = created + 1]
       ELSE /\ gret' = [gret EXCEPT ![p] = client]
            /\ UNCHANGED <<client, created, cstate>>
    /\ lock' = FALSE
    /\ gpc' = [gpc EXCEPT ![p] = "done"]
    /\ UNCHANGED <<spc, starget>>

\* shutdown_http_client up to its await: "if _client is not None" and the call
\* of _client.aclose(), which suspends the caller while the pool is closed.
ShutdownStart(q) ==
    /\ spc[q] = "idle"
    /\ IF client # NoClient
       THEN /\ spc' = [spc EXCEPT ![q] = "closing"]
            /\ starget' = [starget EXCEPT ![q] = client]
            /\ cstate' = [cstate EXCEPT ![client] =
                              IF @ = "closed" THEN "closed" ELSE "closing"]
       ELSE /\ spc' = [spc EXCEPT ![q] = "done"]
            /\ UNCHANGED <<starget, cstate>>
    /\ UNCHANGED <<client, lock, created, gpc, gret>>

\* aclose() returns and shutdown_http_client runs "_client = None".
ShutdownFinish(q) ==
    /\ spc[q] = "closing"
    /\ cstate' = [cstate EXCEPT ![starget[q]] = "closed"]
    /\ client' = ClearedClient(client)
    /\ spc' = [spc EXCEPT ![q] = "done"]
    /\ UNCHANGED <<lock, created, gpc, gret, starget>>

----------------------------------------------------------------------------
(* JSON values and numeric coercion: fastpi/services/market.py             *)

\* Figures an upstream reports (prices, percentages, volumes) are the exact
\* numbers 1..MaxNum.
MaxNum == 3
Nums == 1..MaxNum

\* Python's None for an optional float, and a present float.
None == <<>>
Some(n) == <<n>>

\* A JSON field of a payload as dict.get(key) sees it: the key is absent,
\* holds null, the empty string, a string float() rejects, a number (given
\* as a number or as a numeric string) of value n, a value of a type float()
\* does not take (a list, an object), or an integer literal beyond the range
\* of a float (json gives a Python int of any size).
Absent == [t |-> "absent", n |-> 0]
JNull == [t |-> "null", n |-> 0]
JEmpty == [t |-> "empty", n |-> 0]
JText == [t |-> "text", n |-> 0]
JNum(n) == [t |-> "num", n |-> n]
JNums == {JNum(n) : n \in Nums}
JList == [t |-> "list", n |-> 0]
JBig == [t |-> "big", n |-> 0]

\* The exception float(value) raises, "" when it returns a float.
FloatError(value) ==
    CASE value.t = "text" -> "ValueError"
      [] value.t = "list" -> "TypeError"
      [] value.t = "big" -> "OverflowError"
      [] OTHER -> ""

\* The except clause of _to_float.
Swallowed == {"TypeError", "ValueError"}

\* _to_float leaves by an exception: float() raised one the except clause
\* does not name.
ToFloatRaises(value) ==
    /\ ~(value.t \in {"absent", "null"} \/ value.t = "empty")
    /\ FloatError(value) \notin Swallowed \cup {""}

\* str() of the exception that leaves _to_float.
FloatExcMessage == "int too large to convert to float"

\* _to_float when it returns: None and "" give None, float(value) otherwise,
\* a ValueError or TypeError of float() gives None.
to_float(value) ==
    IF value.t \in {"absent", "null"} \/ value.t = "empty"
    THEN None
    ELSE IF FloatError(value) = "" THEN Some(value.n) ELSE None

\* str.upper() on the symbols the model uses.
Upper(s) ==
    CASE s = "btc" -> "BTC"
      [] s = "Btc" -> "BTC"
      [] s = "eth" -> "ETH"
      [] s = "usdt" -> "USDT"
      [] OTHER -> s

----------------------------------------------------------------------------
(* Upstream answers and per-provider normalisation                         *)

\* An upstream request ends in one of: client.get raises (timeout or
\* connection error), raise_for_status raises (non-2xx), the body is not the
\* JSON object the code reads (json() or .get raises), or a payload.
Timeout == [kind |-> "timeout", payload |-> <<>>]
BadStatus == [kind |-> "status", payload |-> <<>>]
Malformed == [kind |-> "malformed", payload |-> <<>>]
Ok(payload) == [kind |-> "ok", payload |-> payload]
Failures == {Timeout, BadStatus, Malformed}

\* str(exception) of a failed request.
ExcMessage(resp) ==
    CASE resp.kind = "timeout" -> "ReadTimeout"
      [] resp.kind = "status" -> "HTTPStatusError"
      [] OTHER -> "AttributeError"

\* The outcome of one provider coroutine: a MarketPricePoint, or the
\* exception that gather(return_exceptions=True) captures.
Returned(point) == [ok |-> TRUE, point |-> point, exc |-> ""]
Raised(message) == [ok |-> FALSE, point |-> <<>>, exc |-> message]

MarketPricePoint(source, symbol, price, change, volume, raw) ==
    [source |-> source, symbol |-> symbol, price |-> price,
     change_24h |-> change, volume_24h |-> volume, raw |-> raw]

\* _fetch_binance
FetchBinance(resp, base, quote) ==
    IF resp.kind # "ok" THEN Raised(ExcMessage(resp))
    ELSE LET payload == resp.payload IN
         IF \/ ToFloatRaises(payload.lastPrice)
            \/ ToFloatRaises(payload.priceChangePercent)
            \/ ToFloatRaises(payload.quoteVolume)
         THEN Raised(FloatExcMessage)
         ELSE Returned(MarketPricePoint("binance", base \o quote,
                                        to_float(payload.lastPrice),
                                        to_float(payload.priceChangePercent),
                                        to_float(payload.quoteVolume),
                                        payload))

\* A dict is falsy when it is empty: every key the code reads is absent.
EmptyTicker(first) ==
    /\ first.lastPrice = Absent
    /\ first.price24hPcnt = Absent
    /\ first.turnover24h = Absent

\* The percentage _fetch_bybit reports for the fraction pct.
MutBybitPercent(pct) == pct
BybitPercent(pct) == pct * 100

\* _fetch_bybit
FetchBybit(resp, base, quote) ==
    IF resp.kind # "ok" THEN Raised(ExcMessage(resp))
    ELSE LET items == resp.payload IN
         IF items = <<>> \/ EmptyTicker(items[1])
         THEN Raised("Bybit returned no ticker data for " \o base \o quote)
         ELSE IF \/ ToFloatRaises(items[1].lastPrice)
                 \/ ToFloatRaises(items[1].price24hPcnt)
                 \/ ToFloatRaises(items[1].turnover24h)
         THEN Raised(FloatExcMessage)
         ELSE LET first == items[1]
                  pct == to_float(first.price24hPcnt)
                  change == IF first.price24hPcnt # Absent /\ pct # None
                            THEN Some(BybitPercent(pct[1]))
                            ELSE None
              IN Returned(MarketPricePoint("bybit", base \o quote,
                                           to_float(first.lastPrice),
                                           change,
                                           to_float(first.turnover24h),
                                           first))

\* entry.get("symbol", "").upper(); an entry without the key reads as "".
EntrySymbol(entry) == Upper(entry.symbol)

\* The loop of _fetch_coincap: the index of the first entry whose symbol is
\* base_upper, 0 when the loop ends without a match.
RECURSIVE MutFirstMatch(_, _, _)
MutFirstMatch(data, base_upper, i) ==
    IF i > Len(data) THEN 0
    ELSE IF data[i].symbol = base_upper THEN i
    ELSE MutFirstMatch(data, base_upper, i + 1)
RECURSIVE FirstMatch(_, _, _)
FirstMatch(data, base_upper, i) ==
    IF i > Len(data) THEN 0
    ELSE IF EntrySymbol(data[i]) = base_upper THEN i
    ELSE FirstMatch(data, base_upper, i + 1)

\* _fetch_coincap
FetchCoincap(resp, base, quote) ==
    IF resp.kind # "ok" THEN Raised(ExcMessage(resp))
    ELSE LET data == resp.payload
             found == FirstMatch(data, Upper(base), 1)
             sel == IF found # 0 THEN found
                    ELSE IF data # <<>> THEN 1 ELSE 0
         IN IF sel = 0
            THEN Raised("CoinCap returned no asset data for " \o base)
            ELSE IF \/ ToFloatRaises(data[sel].priceUsd)
                    \/ ToFloatRaises(data[sel].changePercent24Hr)
                    \/ ToFloatRaises(data[sel].volumeUsd24Hr)
            THEN Raised(FloatExcMessage)
            ELSE LET match == data[sel] IN
                 Returned(MarketPricePoint("coincap", base \o quote,
                                           to_float(match.priceUsd),
                                           to_float(match.changePercent24Hr),
                                           to_float(match.volumeUsd24Hr),
                                           match))

----------------------------------------------------------------------------
(* Market fan-out / fan-in: MarketDataService.fetch_symbol                 *)

\* The tasks list of fetch_symbol, in order: binance, bybit, coincap.
Providers == <<"binance", "bybit", "coincap">>
Tasks == 1..Len(Providers)

Pending == [ok |-> FALSE, point |-> <<>>, exc |-> "pending"]
NoAnswer == [kind |-> "none", payload |-> <<>>]
NoSnapshot == [base_symbol |-> "", quote_symbol |-> "", symbol |-> "",
               prices |-> <<>>]

MarketInit ==
    /\ mpc = "idle"
    /\ mbase = ""
    /\ mquote = ""
    /\ mresp = [i \in Tasks |-> NoAnswer]
    /\ mresults = [i \in Tasks |-> Pending]
    /\ morder = <<>>
    /\ snapshot = NoSnapshot

\* The coroutine of task i run on the upstream's answer.
FetchProvider(i, resp, base, quote) ==
    CASE i = 1 -> FetchBinance(resp, base, quote)
      [] i = 2 -> FetchBybit(resp, base, quote)
      [] OTHER -> FetchCoincap(resp, base, quote)

\* asyncio.gather(*tasks, return_exceptions=True): the outcomes in the order
\* of the tasks, whatever the order of completion.
MutGatherResults(results, order) == [i \in DOMAIN results |-> results[order[i]]]
GatherResults(results, order) == results

\* The placeholder of a failed task.
MutErrorPoint(symbol, message) ==
    MarketPricePoint("error", symbol, None, None, None, [message |-> ""])
ErrorPoint(symbol, message) ==
    MarketPricePoint("error", symbol, None, None, None, [message |-> message])

\* The loop over results: a price point is appended for every result.
RECURSIVE MutPricePoints(_, _)
MutPricePoints(results, symbol) ==
    IF results = <<>> THEN <<>>
    ELSE IF Head(results).ok
         THEN <<Head(results).point>> \o MutPricePoints(Tail(results), symbol)
         ELSE MutPricePoints(Tail(results), symbol)
RECURSIVE PricePoints(_, _)
PricePoints(results, symbol) ==
    IF results = <<>> THEN <<>>
    ELSE <<IF Head(results).ok
           THEN Head(results).point
           ELSE ErrorPoint(symbol, Head(results).exc)>>
         \o PricePoints(Tail(results), symbol)

\* fetch_symbol up to "await asyncio.gather": the symbols are uppercased and
\* the three provider coroutines are started.
FetchSymbolStart(base_symbol, quote_symbol) ==
    /\ mpc = "idle"
    /\ mpc' = "gather"
    /\ mbase' = Upper(base_symbol)
    /\ mquote' = Upper(quote_symbol)
    /\ UNCHANGED <<mresp, mresults, morder, snapshot>>

\* Provider task i gets its upstream's answer resp and runs to its end.
TaskComplete(i, resp) ==
    /\ mpc = "gather"
    /\ mresults[i] = Pending
    /\ mresp' = [mresp EXCEPT ![i] = resp]
    /\ mresults' = [mresults EXCEPT ![i] = FetchProvider(i, resp, mbase, mquote)]
    /\ morder' = Append(morder, i)
    /\ UNCHANGED <<mpc, mbase, mquote, snapshot>>

\* Provider task i completes on one of the answers its upstream can give.
TaskAnswers(i, answers) ==
    /\ mpc = "gather"
    /\ mresults[i] = Pending
    /\ \E resp \in answers : TaskComplete(i, resp)

\* gather returns once every task is done; fetch_symbol builds the aggregate.
FetchSymbolCollect ==
    /\ mpc = "gather"
    /\ \A i \in Tasks : mresults[i] # Pending
    /\ mpc' = "done"
    /\ snapshot' = [base_symbol |-> mbase, quote_symbol |-> mquote,
                    symbol |-> mbase \o mquote,
                    prices |-> PricePoints(GatherResults(mresults, morder),
                                           mbase \o mquote)]
    /\ UNCHANGED <<mbase, mquote, mresp, mresults, morder>>

----------------------------------------------------------------------------
(* MarketAggregate.median_price: fastpi/models/market.py                   *)

\* The prices of the points that have one, in list order.
RECURSIVE NonNullPrices(_)
NonNullPrices(prices) ==
    IF prices = <<>> THEN <<>>
    ELSE (IF Head(prices).price # None THEN <<Head(prices).price[1]>> ELSE <<>>)
         \o NonNullPrices(Tail(prices))

\* sorted(): insertion of x into the ascending sequence s.
RECURSIVE Insert(_, _)
Insert(x, s) ==
    IF s = <<>> THEN <<x>>
    ELSE IF x <= Head(s) THEN <<x>> \o s
    ELSE <<Head(s)>> \o Insert(x, Tail(s))
MutSorted(s) == s
RECURSIVE Sorted(_)
Sorted(s) == IF s = <<>> THEN <<>> ELSE Insert(Head(s), Sorted(Tail(s)))

\* A float result as the fraction num/den.
Frac(num, den) == [num |-> num, den |-> den]

\* median_price; Python's non_null[mid - 1], non_null[mid] are the elements
\* mid and mid + 1 of a sequence indexed from 1.
median_price(prices) ==
    LET non_null == Sorted(NonNullPrices(prices))
        mid == Len(non_null) \div 2
    IN IF non_null = <<>> THEN None
       ELSE IF Len(non_null) % 2 = 0
            THEN Some(Frac(non_null[mid] + non_null[mid + 1], 2))
            ELSE Some(Frac(non_null[mid + 1], 1))

----------------------------------------------------------------------------
(* URLs, articles and documents: fastpi/services/news.py                   *)

\* A URL text by its parts; an href that is missing or empty is NoUrl, a
\* relative reference has no scheme and no host.
Url(scheme, host, path) == [scheme |-> scheme, host |-> host, path |-> path]
NoUrl == Url("", "", "")

\* urllib.parse.urljoin(base_url, href)
urljoin(base, href) ==
    IF href.scheme = "" /\ href.host = ""
    THEN Url(base.scheme, base.host, href.path)
    ELSE href

\* absolute.startswith("http"): true of http, https and of any other scheme
\* spelt with these four letters first.
StartsWithHttp(u) == u.scheme \in {"http", "https", "httpx"}

\* Validation of NewsArticle.url (pydantic HttpUrl): scheme http or https and
\* a host; anything else raises a ValidationError in the constructor.
ValidHttpUrl(u) == u.scheme \in {"http", "https"} /\ u.host # ""

\* str(item.url): the HttpUrl in normal form (an empty path reads "/").
HttpUrlStr(u) == Url(u.scheme, u.host, IF u.path = "" THEN "/" ELSE u.path)

\* len(title) for the headlines the model uses.
TitleLen(title) ==
    CASE title = "" -> 0
      [] title = "Hi" -> 2
      [] title = "More" -> 4
      [] OTHER -> 19

\* _parse_datetime: None for a missing or unparseable text, else the UTC time.
NoDate == ""
parse_datetime(value) ==
    CASE value = "" -> NoDate
      [] value = "soon" -> NoDate
      [] value = "May 21, 2024 09:15" -> "2024-05-21T09:15:00+00:00"
      [] value = "Mon, 20 May 2024 17:20:00 +0200" -> "2024-05-20T15:20:00+00:00"
      [] OTHER -> value

\* summary and published_at are "" for None; metadata is the set of the
\* dict's (key, value) pairs.
NewsArticle(source, title, url, summary, published, metadata) ==
    [source |-> source, title |-> title, url |-> HttpUrlStr(url),
     summary |-> summary, published_at |-> published, metadata |-> metadata]

NewsFeed(source, items) == [source |-> source, items |-> items]

\* The outcome of a target coroutine or of a step of it.
FeedReturned(feed) == [ok |-> TRUE, feed |-> feed, exc |-> ""]
FeedRaised(message) == [ok |-> FALSE, feed |-> NewsFeed("", <<>>), exc |-> message]

\* An <article> element as the code reads it: whether it holds an <a href>,
\* the anchor's text and href, the text of its first <p> ("" when there is
\* none) and the date text of its <time> ("" when there is none).
Element(anchor, title, href, summary, time) ==
    [anchor |-> anchor, title |-> title, href |-> href, summary |-> summary,
     time |-> time]

\* An anchor matched by "h2 a, h3 a, .headline a".
Anchor(title, href) == [title |-> title, href |-> href]

\* An <item> of the RSS feed: texts of <title>, <link>, <pubDate> and
\* <description>, "" (NoUrl for the link) when the tag is missing or empty.
RssItem(title, link, date, description) ==
    [title |-> title, link |-> link, date |-> date, description |-> description]

\* The least title length _build_article_from_element and the fallback accept.
MinTitleLen == 5

\* _build_article_from_element: "none" for a skipped element, "raise" when
\* the NewsArticle constructor rejects the URL, else the article.
BuildArticle(element, base_url, source) ==
    IF ~element.anchor THEN [kind |-> "none"]
    ELSE IF element.title = "" \/ TitleLen(element.title) < MinTitleLen
         THEN [kind |-> "none"]
    ELSE LET href == urljoin(base_url, element.href) IN
         IF ~StartsWithHttp(href) THEN [kind |-> "none"]
         ELSE IF ~ValidHttpUrl(href) THEN [kind |-> "raise"]
         ELSE [kind |-> "item",
               item |-> NewsArticle(source, element.title, href, element.summary,
                                    parse_datetime(element.time), {})]

\* "item.url not in seen" of the first tier: item.url is an HttpUrl object
\* and seen holds str values, and an HttpUrl never equals a str.
HttpUrlInStrs(url, seen) == FALSE

\* The loop over soup.find_all("article") of _extract_articles.
RECURSIVE Tier1(_, _, _, _, _, _)
Tier1(elements, base_url, source, limit, articles, seen) ==
    IF elements = <<>> THEN [ok |-> TRUE, articles |-> articles, seen |-> seen]
    ELSE LET built == BuildArticle(Head(elements), base_url, source) IN
         IF built.kind = "raise"
         THEN [ok |-> FALSE, articles |-> articles, seen |-> seen]
         ELSE LET add == built.kind = "item" /\ ~HttpUrlInStrs(built.item.url, seen)
                  articles2 == IF add THEN Append(articles, built.item) ELSE articles
                  seen2 == IF add THEN seen \cup {built.item.url} ELSE seen
              IN IF Len(articles2) >= limit
                 THEN [ok |-> TRUE, articles |-> articles2, seen |-> seen2]
                 ELSE Tier1(Tail(elements), base_url, source, limit,
                            articles2, seen2)

\* The loop over the fallback anchors of _extract_articles.
RECURSIVE Tier2(_, _, _, _, _, _)
Tier2(anchors, base_url, source, limit, articles, seen) ==
    IF anchors = <<>> THEN [ok |-> TRUE, articles |-> articles, seen |-> seen]
    ELSE LET a == Head(anchors)
             absolute == urljoin(base_url, a.href)
             rest == Tail(anchors)
         IN IF a.href = NoUrl \/ a.title = "" \/ TitleLen(a.title) < MinTitleLen
            THEN Tier2(rest, base_url, source, limit, articles, seen)
            ELSE IF ~StartsWithHttp(absolute)
            THEN Tier2(rest, base_url, source, limit, articles, seen)
            ELSE IF absolute \in seen
            THEN Tier2(rest, base_url, source, limit, articles, seen)
            ELSE IF ~ValidHttpUrl(absolute)
            THEN [ok |-> FALSE, articles |-> articles, seen |-> seen]
            ELSE LET articles2 ==
                         Append(articles,
                                NewsArticle(source, a.title, absolute, "", NoDate, {}))
                     seen2 == seen \cup {absolute}
                 IN IF Len(articles2) >= limit
                    THEN [ok |-> TRUE, articles |-> articles2, seen |-> seen2]
                    ELSE Tier2(rest, base_url, source, limit, articles2, seen2)

\* articles[:limit] for limit >= 0
Take(s, n) == SubSeq(s, 1, IF n < Len(s) THEN n ELSE Len(s))

\* _extract_articles: the structured pass, the fallback pass when the first
\* fell short of limit, and the final truncation; ok is FALSE when a
\* NewsArticle constructor raised.
extract_articles(soup, base_url, source, limit) ==
    LET first == Tier1(soup.articles, base_url, source, limit, <<>>, {}) IN
    IF ~first.ok THEN first
    ELSE IF Len(first.articles) < limit
         THEN LET second == Tier2(soup.anchors, base_url, source, limit,
                                  first.articles, first.seen)
              IN [second EXCEPT !.articles = Take(@, limit)]
         ELSE [first EXCEPT !.articles = Take(@, limit)]

\* str(exception) of a failed target.
NewsExcMessage(resp) ==
    CASE resp.kind = "timeout" -> "ReadTimeout"
      [] resp.kind = "status" -> "HTTPStatusError"
      [] OTHER -> "ValidationError"

\* _scrape_generic
scrape_generic(resp, target, limit) ==
    IF resp.kind # "ok" THEN FeedRaised(NewsExcMessage(resp))
    ELSE LET got == extract_articles(resp.payload, target.url, target.name, limit) IN
         IF got.ok THEN FeedReturned(NewsFeed(target.name, got.articles))
         ELSE FeedRaised("ValidationError")

\* The loop over soup.find_all("item") of _fetch_cryptopanic_rss.
RECURSIVE RssItems(_, _, _, _, _)
RssItems(entries, source, limit, items, seen) ==
    IF entries = <<>> THEN [ok |-> TRUE, articles |-> items, seen |-> seen]
    ELSE LET e == Head(entries) IN
         IF e.title = "" \/ e.link = NoUrl \/ e.link \in seen
         THEN RssItems(Tail(entries), source, limit, items, seen)
         ELSE IF ~ValidHttpUrl(e.link)
         THEN [ok |-> FALSE, articles |-> items, seen |-> seen]
         ELSE LET items2 ==
                      Append(items,
                             NewsArticle(source, e.title, e.link, e.description,
                                         parse_datetime(e.date), {}))
                  seen2 == seen \cup {e.link}
              IN IF Len(items2) >= limit
                 THEN [ok |-> TRUE, articles |-> items2, seen |-> seen2]
                 ELSE RssItems(Tail(entries), source, limit, items2, seen2)

\* _fetch_cryptopanic_rss
fetch_cryptopanic_rss(resp, target, limit) ==
    IF resp.kind # "ok" THEN FeedRaised(NewsExcMessage(resp))
    ELSE LET got == RssItems(resp.payload.items, target.name, limit, <<>>, {}) IN
         IF got.ok THEN FeedReturned(NewsFeed(target.name, got.articles))
         ELSE FeedRaised("ValidationError")

\* min(limit_per_source, target.limit)
MutTargetCap(limit_per_source, target_limit) == limit_per_source
TargetCap(limit_per_source, target_limit) ==
    IF limit_per_source < target_limit THEN limit_per_source ELSE target_limit

\* _fetch_target
fetch_target(resp, target, limit_per_source) ==
    LET limit == TargetCap(limit_per_source, target.limit) IN
    IF target.name = "CryptoPanic"
    THEN fetch_cryptopanic_rss(resp, target, limit)
    ELSE scrape_generic(resp, target, limit)

----------------------------------------------------------------------------
(* News fan-out / fan-in: NewsService.fetch_all                            *)

\* ScrapeTarget and the default of its limit field.
DefaultLimit == 6
ScrapeTarget(name, url, limit) == [name |-> name, url |-> url, limit |-> limit]

\* The tuple SCRAPE_TARGETS as the module defines it.
AllScrapeTargets ==
    <<ScrapeTarget("CoinDesk", Url("https", "www.coindesk.com", "/"), DefaultLimit),
      ScrapeTarget("The Block", Url("https", "www.theblock.co", "/latest"), DefaultLimit),
      ScrapeTarget("Blockworks", Url("https", "blockworks.co", "/news"), DefaultLimit),
      ScrapeTarget("Cointelegraph", Url("https", "cointelegraph.com", "/"), DefaultLimit),
      ScrapeTarget("The Defiant", Url("https", "thedefiant.io", "/latest"), DefaultLimit),
      ScrapeTarget("DL News", Url("https", "www.dlnews.com", "/"), DefaultLimit),
      ScrapeTarget("Protos", Url("https", "protos.com", "/"), DefaultLimit),
      ScrapeTarget("Decrypt", Url("https", "decrypt.co", "/"), DefaultLimit),
      ScrapeTarget("Messari", Url("https", "messari.io", "/news"), DefaultLimit),
      ScrapeTarget("Glassnode Insights", Url("https", "insights.glassnode.com", "/"),
                   DefaultLimit),
      ScrapeTarget("CryptoPanic", Url("https", "cryptopanic.com", "/news/rss/"),
                   DefaultLimit)>>

\* The model runs fetch_all over the last NumTargets configured targets.
NumTargets == 2
SCRAPE_TARGETS ==
    SubSeq(AllScrapeTargets, Len(AllScrapeTargets) - NumTargets + 1,
           Len(AllScrapeTargets))

FeedPending == [ok |-> FALSE, feed |-> NewsFeed("", <<>>), exc |-> "pending"]
NoAggregate == [feeds |-> <<>>]

NewsInit(targets) ==
    /\ npc = "idle"
    /\ ntargets = targets
    /\ ncap = 0
    /\ nresp = [i \in DOMAIN targets |-> NoAnswer]
    /\ nresults = [i \in DOMAIN targets |-> FeedPending]
    /\ norder = <<>>
    /\ aggregate = NoAggregate

\* The synthetic feed of a failed target.
MutFailedFeed(target, message) == NewsFeed(target.name, <<>>)
FailedFeed(target, message) ==
    NewsFeed(target.name,
             <<NewsArticle(target.name, "Failed to retrieve articles",
                           Url("https", "status.fastpi.dev", "/error"),
                           message, NoDate, {<<"error", message>>})>>)

\* The loop over zip(SCRAPE_TARGETS, results): one feed per pair.
RECURSIVE Feeds(_, _)
Feeds(targets, results) ==
    IF targets = <<>> \/ results = <<>> THEN <<>>
    ELSE <<IF Head(results).ok
           THEN Head(results).feed
           ELSE FailedFeed(Head(targets), Head(results).exc)>>
         \o Feeds(Tail(targets), Tail(results))

\* fetch_all up to "await asyncio.gather": one coroutine per target.
FetchAllStart(limit_per_source) ==
    /\ npc = "idle"
    /\ npc' = "gather"
    /\ ncap' = limit_per_source
    /\ UNCHANGED <<ntargets, nresp, nresults, norder, aggregate>>

\* The task of target i gets its upstream's answer and runs to its end.
TargetComplete(i, resp) ==
    /\ npc = "gather"
    /\ nresults[i] = FeedPending
    /\ nresp' = [nresp EXCEPT ![i] = resp]
    /\ nresults' = [nresults EXCEPT ![i] = fetch_target(resp, ntargets[i], ncap)]
    /\ norder' = Append(norder, i)
    /\ UNCHANGED <<npc, ntargets, ncap, aggregate>>

\* The task of target i completes on one of the answers its upstream can
\* give: an RSS document for CryptoPanic, an HTML document for the others.
TargetAnswers(i, html, rss) ==
    /\ npc = "gather"
    /\ nresults[i] = FeedPending
    /\ \E resp \in (IF ntargets[i].name = "CryptoPanic" THEN rss ELSE html) :
          TargetComplete(i, resp)

\* gather returns once every task is done; fetch_all builds the aggregate.
FetchAllCollect ==
    /\ npc = "gather"
    /\ \A i \in DOMAIN ntargets : nresults[i] # FeedPending
    /\ npc' = "done"
    /\ aggregate' = [feeds |-> Feeds(ntargets, GatherResults(nresults, norder))]
    /\ UNCHANGED <<ntargets, ncap, nresp, nresults, norder>>

----------------------------------------------------------------------------
(* Upstream answers the specifications draw from                           *)

SeqsUpTo(S, n) == UNION {[1..k -> S] : k \in 0..n}

BinancePayload(price, change, volume) ==
    [lastPrice |-> price, priceChangePercent |-> change, quoteVolume |-> volume]
Ticker(price, pcnt, turnover) ==
    [lastPrice |-> price, price24hPcnt |-> pcnt, turnover24h |-> turnover]
Asset(symbol, price, change, volume) ==
    [symbol |-> symbol, priceUsd |-> price, changePercent24Hr |-> change,
     volumeUsd24Hr |-> volume]

\* Symbols a caller asks for.
BaseInputs == {"BTC", "btc"}
QuoteInputs == {"USDT", "usdt"}

\* A sample of answers per provider: every failure, an empty result and
\* payloads with each price, a missing price and a non-numeric price.
BinanceAnswers ==
    Failures \cup {Ok(BinancePayload(p, JNum(1), Absent)) : p \in JNums \cup {Absent, JText}}
BybitAnswers ==
    Failures \cup {Ok(<<>>)}
             \cup {Ok(<<Ticker(p, JNum(1), Absent)>>) : p \in JNums \cup {JEmpty}}
CoincapAnswers ==
    Failures \cup {Ok(<<>>)}
             \cup {Ok(<<Asset("BTC", p, JNum(1), Absent)>>) : p \in JNums \cup {JNull}}

\* Every shape of Bybit ticker list: up to two tickers, each field absent,
\* null, empty, non-numeric or a number.
BybitTickers ==
    {Ticker(p, c, v) : p \in {Absent, JNum(1)},
                       c \in JNums \cup {Absent, JNull, JEmpty, JText},
                       v \in {Absent, JNum(1)}}
BybitLists == {<<>>} \cup {<<t>> : t \in BybitTickers}
                     \cup {<<t, u>> : t \in BybitTickers, u \in BybitTickers}

\* Candidate lists of CoinCap: up to MaxAssets entries; the symbol is missing
\* (read as ""), the base in either case, or another asset.
MaxAssets == 2
CoincapAssets ==
    {Asset(sym, p, JNum(1), Absent) : sym \in {"", "BTC", "btc", "ETH", "eth"},
                                      p \in {Absent, JNum(1), JNum(MaxNum)}}
CoincapLists == SeqsUpTo(CoincapAssets, MaxAssets)

BybitListAnswers == Failures \cup {Ok(l) : l \in BybitLists}
CoincapListAnswers == Failures \cup {Ok(l) : l \in CoincapLists}

\* Per-source caps a caller asks for (the endpoint admits 1..12).
MaxCap == 2
CapInputs == 1..MaxCap

HtmlDoc(articles, anchors) == [articles |-> articles, anchors |-> anchors]
RssDoc(items) == [items |-> items]

\* Elements of an HTML page: the two articles of the repository's test page,
\* a third one, one with a two-letter headline, one without a link, one
\* whose link has a scheme HttpUrl rejects, and one whose link is a bare
\* origin ("https://external.com", which HttpUrl writes with a final "/").
FirstElement ==
    Element(TRUE, "First crypto update", Url("", "", "/article-1"),
            "Summary about the first article.", "2024-05-20T12:34:00+00:00")
SecondElement ==
    Element(TRUE, "Second crypto insight", Url("https", "external.com", "/article-2"),
            "", "May 21, 2024 09:15")
ThirdElement ==
    Element(TRUE, "Third crypto report", Url("", "", "/article-3"), "", "soon")
ShortElement == Element(TRUE, "Hi", Url("", "", "/article-4"), "", "")
BareElement == Element(FALSE, "", NoUrl, "No link here.", "")
AppElement == Element(TRUE, "Open in the app", Url("httpx", "app", "/article-5"), "", "")
HomeElement == Element(TRUE, "External home page", Url("https", "external.com", ""), "", "")

FirstAnchor == Anchor("First crypto update", Url("", "", "/article-1"))
SixthAnchor == Anchor("Sixth crypto column", Url("", "", "/article-6"))
ShortAnchor == Anchor("More", Url("", "", "/more"))
HomeAnchor == Anchor("External home page", Url("https", "external.com", ""))

\* Items of an RSS feed: the item of the repository's test feed, a second
\* one, a repeat of the first link, one without a link, one whose link is
\* relative.
FirstItem ==
    RssItem("Market sentiment flips", Url("https", "cryptopanic.com", "/news/market-sentiment"),
            "Mon, 20 May 2024 17:20:00 +0200", "Quick summary.")
SecondItem ==
    RssItem("Rates hold steady", Url("https", "cryptopanic.com", "/news/rates"), "soon", "")
RepeatItem ==
    RssItem("Market sentiment flips again",
            Url("https", "cryptopanic.com", "/news/market-sentiment"), "", "")
NoLinkItem == RssItem("Untitled", NoUrl, "", "")
RelativeItem == RssItem("Relative link", Url("", "", "/news/relative"), "", "")

NewsFailures == {Timeout, BadStatus}

\* A sample of answers per target for the aggregation.
HtmlAnswers ==
    NewsFailures \cup
    {Ok(HtmlDoc(<<>>, <<>>)),
     Ok(HtmlDoc(<<FirstElement, SecondElement>>, <<>>)),
     Ok(HtmlDoc(<<FirstElement, SecondElement, ThirdElement>>, <<SixthAnchor>>)),
     Ok(HtmlDoc(<<FirstElement, AppElement>>, <<>>))}
RssAnswers ==
    NewsFailures \cup
    {Ok(RssDoc(<<>>)),
     Ok(RssDoc(<<FirstItem>>)),
     Ok(RssDoc(<<FirstItem, NoLinkItem, SecondItem, RepeatItem>>)),
     Ok(RssDoc(<<RelativeItem, FirstItem>>))}

\* Every document of up to MaxArticles <article> elements and MaxAnchors
\* fallback anchors, and every feed of up to MaxItems items.
MaxArticles == 2
MaxAnchors == 2
MaxItems == 2
ElementKinds ==
    {FirstElement, SecondElement, ThirdElement, ShortElement, BareElement, AppElement,
     HomeElement}
AnchorKinds == {FirstAnchor, SixthAnchor, ShortAnchor, HomeAnchor}
ItemKinds == {FirstItem, SecondItem, RepeatItem, NoLinkItem, RelativeItem}
HtmlDocAnswers ==
    NewsFailures \cup
    {Ok(HtmlDoc(a, f)) : a \in SeqsUpTo(ElementKinds, MaxArticles),
                         f \in SeqsUpTo(AnchorKinds, MaxAnchors)}
RssDocAnswers ==
    NewsFailures \cup {Ok(RssDoc(i)) : i \in SeqsUpTo(ItemKinds, MaxItems)}

\* A single configured target, as the repository's tests install it, with
\* each limit up to MaxLimit.
MaxLimit == 2
SingleTargets ==
    {<<ScrapeTarget("TestSource", Url("https", "testsource.example", "/"), l)>> :
        l \in 1..MaxLimit}
    \cup {<<ScrapeTarget("CryptoPanic", Url("https", "cryptopanic.com", "/news/rss/"), l)>> :
        l \in 1..MaxLimit}

----------------------------------------------------------------------------
(* Specifications                                                          *)

vars == <<httpVars, marketVars, newsVars>>

\* The shared client under concurrent first use and shutdown.
HttpStart == HttpInit /\ MarketInit /\ NewsInit(SCRAPE_TARGETS)
HttpNext ==
    \/ \E p \in Getters : GetCheck(p) /\ UNCHANGED <<marketVars, newsVars>>
    \/ \E p \in Getters : GetAcquire(p) /\ UNCHANGED <<marketVars, newsVars>>
    \/ \E p \in Getters : GetCreate(p) /\ UNCHANGED <<marketVars, newsVars>>
    \/ \E q \in Closers : ShutdownStart(q) /\ UNCHANGED <<marketVars, newsVars>>
    \/ \E q \in Closers : ShutdownFinish(q) /\ UNCHANGED <<marketVars, newsVars>>

SpecHttp == HttpStart /\ [][HttpNext]_vars

\* One aggregation call, market or news, its upstream tasks completing in
\* any order.
AggregateStart == HttpInit /\ MarketInit /\ NewsInit(SCRAPE_TARGETS)
AggregateNext ==
    \/ /\ npc = "idle"
       /\ \E b \in BaseInputs, q \in QuoteInputs : FetchSymbolStart(b, q)
       /\ UNCHANGED <<httpVars, newsVars>>
    \/ TaskAnswers(1, BinanceAnswers) /\ UNCHANGED <<httpVars, newsVars>>
    \/ TaskAnswers(2, BybitAnswers) /\ UNCHANGED <<httpVars, newsVars>>
    \/ TaskAnswers(3, CoincapAnswers) /\ UNCHANGED <<httpVars, newsVars>>
    \/ FetchSymbolCollect /\ UNCHANGED <<httpVars, newsVars>>
    \/ /\ mpc = "idle"
       /\ \E cap \in CapInputs : FetchAllStart(cap)
       /\ UNCHANGED <<httpVars, marketVars>>
    \/ /\ \E i \in DOMAIN ntargets : TargetAnswers(i, HtmlAnswers, RssAnswers)
       /\ UNCHANGED <<httpVars, marketVars>>
    \/ FetchAllCollect /\ UNCHANGED <<httpVars, marketVars>>

SpecAggregate == AggregateStart /\ [][AggregateNext]_vars

\* One market call with every shape of Bybit ticker list.
BybitStart == HttpInit /\ MarketInit /\ NewsInit(SCRAPE_TARGETS)
BybitNext ==
    \/ FetchSymbolStart("BTC", "USDT") /\ UNCHANGED <<httpVars, newsVars>>
    \/ /\ TaskAnswers(1, {Timeout, Ok(BinancePayload(JNum(1), Absent, Absent))})
       /\ UNCHANGED <<httpVars, newsVars>>
    \/ TaskAnswers(2, BybitListAnswers) /\ UNCHANGED <<httpVars, newsVars>>
    \/ TaskAnswers(3, {Timeout}) /\ UNCHANGED <<httpVars, newsVars>>
    \/ FetchSymbolCollect /\ UNCHANGED <<httpVars, newsVars>>

SpecBybit == BybitStart /\ [][BybitNext]_vars

\* One market call with every value of Binance's three numeric fields.
JsonValues == JNums \cup {Absent, JNull, JEmpty, JText, JList, JBig}
BinanceFieldAnswers ==
    Failures \cup {Ok(BinancePayload(p, c, v)) :
                      p \in JsonValues, c \in JsonValues, v \in {Absent, JNum(1), JBig}}
BinanceStart == HttpInit /\ MarketInit /\ NewsInit(SCRAPE_TARGETS)
BinanceNext ==
    \/ FetchSymbolStart("BTC", "USDT") /\ UNCHANGED <<httpVars, newsVars>>
    \/ TaskAnswers(1, BinanceFieldAnswers) /\ UNCHANGED <<httpVars, newsVars>>
    \/ /\ TaskAnswers(2, {Timeout, Ok(<<Ticker(JBig, JNum(1), Absent)>>),
                           Ok(<<Ticker(JNum(1), JNum(1), Absent)>>)})
       /\ UNCHANGED <<httpVars, newsVars>>
    \/ /\ TaskAnswers(3, {Timeout, Ok(<<Asset("BTC", JNum(1), JBig, Absent)>>),
                           Ok(<<Asset("BTC", JNum(1), JNum(1), Absent)>>)})
       /\ UNCHANGED <<httpVars, newsVars>>
    \/ FetchSymbolCollect /\ UNCHANGED <<httpVars, newsVars>>

SpecBinance == BinanceStart /\ [][BinanceNext]_vars

\* One market call with every candidate list of CoinCap.
CoincapStart == HttpInit /\ MarketInit /\ NewsInit(SCRAPE_TARGETS)
CoincapNext ==
    \/ /\ \E b \in {"BTC", "btc", "ETH"} : FetchSymbolStart(b, "USDT")
       /\ UNCHANGED <<httpVars, newsVars>>
    \/ TaskAnswers(1, {Timeout}) /\ UNCHANGED <<httpVars, newsVars>>
    \/ TaskAnswers(2, {BadStatus}) /\ UNCHANGED <<httpVars, newsVars>>
    \/ TaskAnswers(3, CoincapListAnswers) /\ UNCHANGED <<httpVars, newsVars>>
    \/ FetchSymbolCollect /\ UNCHANGED <<httpVars, newsVars>>

SpecCoincap == CoincapStart /\ [][CoincapNext]_vars

\* One news call over a single configured target with every document.
ExtractStart == HttpInit /\ MarketInit /\ \E t \in SingleTargets : NewsInit(t)
ExtractNext ==
    \/ /\ \E cap \in CapInputs : FetchAllStart(cap)
       /\ UNCHANGED <<httpVars, marketVars>>
    \/ /\ \E i \in DOMAIN ntargets : TargetAnswers(i, HtmlDocAnswers, RssDocAnswers)
       /\ UNCHANGED <<httpVars, marketVars>>
    \/ FetchAllCollect /\ UNCHANGED <<httpVars, marketVars>>

SpecExtract == ExtractStart /\ [][ExtractNext]_vars

----------------------------------------------------------------------------
(* Properties                                                              *)

\* Task i of the finished market call, run alone on the answer it received.
AloneMarket(i) ==
    FetchProvider(i, mresp[i], snapshot.base_symbol, snapshot.quote_symbol)

\* Target i of the finished news call, run alone on the answer it received.
AloneNews(i) == fetch_target(nresp[i], ntargets[i], ncap)

Min(a, b) == IF a < b THEN a ELSE b

\* C1: whatever the outcomes of the upstream requests, fetch_symbol returns
\* exactly 3 price points and fetch_all one feed per configured target; a
\* failed source is present as a placeholder (an "error" point, a feed with
\* the single "Failed to retrieve articles" article), never omitted.
C1_OneSlotPerSource ==
    /\ mpc = "done" =>
          /\ Len(snapshot.prices) = 3
          /\ \A i \in Tasks :
                ~AloneMarket(i).ok => snapshot.prices[i].source = "error"
    /\ npc = "done" =>
          /\ Len(aggregate.feeds) = Len(ntargets)
          /\ \A i \in DOMAIN ntargets :
                ~AloneNews(i).ok =>
                   /\ Len(aggregate.feeds[i].items) = 1
                   /\ aggregate.feeds[i].items[1].title = "Failed to retrieve articles"

\* C1 witness: a finished market call in which binance timed out, bybit
\* returned an empty list and coincap answered.
C1_Witness ==
    /\ mpc = "done"
    /\ mresp[1] = Timeout
    /\ mresp[2] = Ok(<<>>)
    /\ mresp[3].kind = "ok" /\ mresp[3].payload # <<>>
    /\ Len(snapshot.prices) = 3

\* C2: the output order of a call is the configuration order whatever the
\* completion order: prices[i] is the result of provider i, tagged with that
\* provider's name or "error", and feeds[i].source is the name of target i.
C2_ConfigurationOrder ==
    /\ mpc = "done" =>
          \A i \in Tasks :
             /\ snapshot.prices[i].source =
                   IF AloneMarket(i).ok THEN Providers[i] ELSE "error"
             /\ AloneMarket(i).ok => snapshot.prices[i] = AloneMarket(i).point
    /\ npc = "done" =>
          \A i \in DOMAIN ntargets :
             /\ aggregate.feeds[i].source = ntargets[i].name
             /\ AloneNews(i).ok => aggregate.feeds[i] = AloneNews(i).feed

\* C2 witness: the tasks completed in the order coincap, bybit, binance, bybit
\* failed, and the snapshot lists binance, error, coincap.
C2_Witness ==
    /\ mpc = "done"
    /\ morder = <<3, 2, 1>>
    /\ snapshot.prices[1].source = "binance"
    /\ snapshot.prices[2].source = "error"
    /\ snapshot.prices[3].source = "coincap"

\* C3: when any subset of the provider tasks fails, fetch_symbol still
\* returns; a failed task gives a point with source "error", the snapshot's
\* symbol, no price, change or volume and the failure's message in raw; a
\* task that succeeded gives the point it produces on its own.
C3_FailureIsolation ==
    mpc = "done" =>
       \A i \in Tasks :
          IF AloneMarket(i).ok
          THEN snapshot.prices[i] = AloneMarket(i).point
          ELSE snapshot.prices[i] =
                  [source |-> "error", symbol |-> snapshot.symbol,
                   price |-> None, change_24h |-> None, volume_24h |-> None,
                   raw |-> [message |-> AloneMarket(i).exc]]

\* C3 witness: bybit failed with a non-2xx status between two providers
\* that answered with a price.
C3_Witness ==
    /\ mpc = "done"
    /\ mresp[2] = BadStatus
    /\ snapshot.prices[2].raw = [message |-> "HTTPStatusError"]
    /\ snapshot.prices[1].source = "binance" /\ snapshot.prices[1].price = Some(2)
    /\ snapshot.prices[3].source = "coincap" /\ snapshot.prices[3].price = Some(1)

\* C4: when the fetch or the parse of a target fails, fetch_all still
\* returns and that target's feed holds exactly one article, titled "Failed
\* to retrieve articles", with the placeholder URL, no publish date and the
\* failure message as summary and under metadata; the other feeds are the
\* ones their targets produce.
C4_FailedTargetFeed ==
    npc = "done" =>
       \A i \in DOMAIN ntargets :
          IF AloneNews(i).ok
          THEN aggregate.feeds[i] = AloneNews(i).feed
          ELSE /\ aggregate.feeds[i].source = ntargets[i].name
               /\ Len(aggregate.feeds[i].items) = 1
               /\ LET a == aggregate.feeds[i].items[1] IN
                     /\ a.source = ntargets[i].name
                     /\ a.title = "Failed to retrieve articles"
                     /\ a.url = Url("https", "status.fastpi.dev", "/error")
                     /\ a.published_at = NoDate
                     /\ a.summary = AloneNews(i).exc
                     /\ a.metadata = {<<"error", AloneNews(i).exc>>}

\* C4 witness: the page of the HTML target failed to parse into articles
\* (a link HttpUrl rejects) while the RSS target delivered two articles.
C4_Witness ==
    /\ npc = "done"
    /\ \E i \in DOMAIN ntargets :
          /\ nresp[i] = Ok(HtmlDoc(<<FirstElement, AppElement>>, <<>>))
          /\ aggregate.feeds[i].items[1].summary = "ValidationError"
    /\ \E j \in DOMAIN ntargets :
          /\ ntargets[j].name = "CryptoPanic"
          /\ Len(aggregate.feeds[j].items) = 2
          /\ aggregate.feeds[j].items[1].title = "Market sentiment flips"

\* C5: the feed returned for a target holds at most min(requested cap,
\* target's limit) articles, on the RSS path and on the HTML path with both
\* tiers, whatever the document holds.
C5_FeedCap ==
    /\ \A i \in DOMAIN ntargets :
          nresults[i].ok =>
             Len(nresults[i].feed.items) <= Min(ncap, ntargets[i].limit)
    /\ npc = "done" =>
          \A i \in DOMAIN ntargets :
             Len(aggregate.feeds[i].items) <= Min(ncap, ntargets[i].limit)

\* C5 witness: cap 2 against a target of limit 1 whose page has no usable
\* <article> and two usable fallback anchors: one article is returned.
C5_Witness ==
    /\ npc = "done"
    /\ ncap = 2
    /\ ntargets[1].limit = 1
    /\ nresp[1] = Ok(HtmlDoc(<<ShortElement>>, <<FirstAnchor, SixthAnchor>>))
    /\ Len(aggregate.feeds[1].items) = 1
    /\ aggregate.feeds[1].items[1].title = "First crypto update"

\* C6: while no shutdown has begun, however the concurrent callers of
\* get_http_client interleave, at most one client is constructed and every
\* caller that has returned holds that one client, which is the shared one.
C6_SingleClient ==
    (\A q \in Closers : spc[q] = "idle") =>
       /\ created <= 1
       /\ \A p \in Getters :
             gpc[p] = "done" => created = 1 /\ gret[p] = 1 /\ client = 1

\* C6 witness: no shutdown ran; one caller constructed client 1 and returned
\* it while a second caller, which had found no client on entry, holds the
\* lock and a third still waits for it.
C6_Witness ==
    /\ \A q \in Closers : spc[q] = "idle"
    /\ created = 1 /\ client = 1
    /\ \E p, p2, p3 \in Getters :
          /\ gpc[p] = "done" /\ gret[p] = 1
          /\ gpc[p2] = "locked"
          /\ gpc[p3] = "wait"

\* C7: a shutdown that finds a client closes it and leaves no shared client;
\* a shutdown that finds none changes nothing; a get_http_client call that
\* starts when there is no shared client does not return before it has the
\* lock, where it constructs a new client if there still is none; and no
\* call ever returns a client whose close has completed.
C7_ShutdownThenFresh ==
    [][/\ \A q \in Closers :
             /\ (spc[q] = "closing" /\ spc'[q] = "done") =>
                   cstate'[starget[q]] = "closed" /\ client' = NoClient
             /\ (spc[q] = "idle" /\ spc'[q] = "done") =>
                   client = NoClient /\ UNCHANGED <<client, cstate, created>>
       /\ \A p \in Getters :
             /\ (gpc[p] # "done" /\ gpc'[p] = "done") =>
                   cstate'[gret'[p]] \in {"open", "closing"}
             /\ (gpc[p] = "idle" /\ gpc'[p] = "done") =>
                   client # NoClient /\ gret'[p] = client
             /\ (gpc[p] = "locked" /\ gpc'[p] = "done" /\ client = NoClient) =>
                   /\ cstate[gret'[p]] = "unborn"
                   /\ cstate'[gret'[p]] = "open"
                   /\ client' = gret'[p]
      ]_vars

\* C7 witness: client 1 was closed by a shutdown that completed, and a later
\* get_http_client call returned the newly constructed client 2.
C7_Witness ==
    /\ cstate[1] = "closed"
    /\ \E q \in Closers : spc[q] = "done" /\ starget[q] = 1
    /\ \E p \in Getters : gpc[p] = "done" /\ gret[p] = 2
    /\ cstate[2] = "open" /\ client = 2

\* The indices of the points of the snapshot that carry a price.
Priced == {i \in DOMAIN snapshot.prices : snapshot.prices[i].price # None}
PriceAt(i) == snapshot.prices[i].price[1]
\* The k-th smallest of the prices, by counting.
Ranked(k) ==
    CHOOSE v \in {PriceAt(i) : i \in Priced} :
       /\ Cardinality({i \in Priced : PriceAt(i) < v}) < k
       /\ Cardinality({i \in Priced : PriceAt(i) <= v}) >= k
Permuted(perm) == [i \in DOMAIN snapshot.prices |-> snapshot.prices[perm[i]]]

\* C8: median_price is taken over the non-null prices whatever their order
\* in the list: the middle one when their count is odd, the average of the
\* two middle ones when it is even, null when there is none.
C8_Median ==
    mpc = "done" =>
       LET n == Cardinality(Priced)
           m == median_price(snapshot.prices)
       IN /\ n = 0 => m = None
          /\ (n > 0 /\ n % 2 = 1) => m = Some(Frac(Ranked((n + 1) \div 2), 1))
          /\ (n > 0 /\ n % 2 = 0) =>
                m = Some(Frac(Ranked(n \div 2) + Ranked(n \div 2 + 1), 2))
          /\ \A perm \in Permutations(DOMAIN snapshot.prices) :
                median_price(Permuted(perm)) = m

\* C8 witness: the three providers report 3, 1 and 2; the median is 2.
C8_Witness ==
    /\ mpc = "done"
    /\ snapshot.prices[1].price = Some(3)
    /\ snapshot.prices[2].price = Some(1)
    /\ snapshot.prices[3].price = Some(2)
    /\ median_price(snapshot.prices) = Some(Frac(2, 1))

\* Symbols that differ in letter case only.
CaseClasses == {{"BTC", "btc", "Btc"}, {"ETH", "eth"}, {"USDT", "usdt"}}
SameIgnoringCase(a, b) == a = b \/ \E c \in CaseClasses : a \in c /\ b \in c

\* C9: of a CoinCap candidate list, the first candidate whose symbol equals
\* the base ignoring case is selected, wherever it stands; without such a
\* candidate the first one is selected; the provider fails with the data
\* error exactly when the list is empty.
C9_CoincapSelection ==
    (mpc = "done" /\ mresp[3].kind = "ok") =>
       LET data == mresp[3].payload
           hits == {i \in DOMAIN data : SameIgnoringCase(data[i].symbol, mbase)}
           point == snapshot.prices[3]
       IN IF data = <<>>
          THEN /\ point.source = "error"
               /\ point.raw = [message |-> "CoinCap returned no asset data for " \o mbase]
          ELSE /\ point.source = "coincap"
               /\ hits # {} =>
                     point.raw = data[CHOOSE i \in hits : \A j \in hits : i <= j]
               /\ hits = {} => point.raw = data[1]
               /\ point.price = to_float(point.raw.priceUsd)

\* C9 witness: base BTC, candidates ETH then btc: the second is selected.
C9_Witness ==
    /\ mpc = "done"
    /\ mbase = "BTC"
    /\ mresp[3] = Ok(<<Asset("ETH", JNum(1), JNum(1), Absent),
                       Asset("btc", JNum(MaxNum), JNum(1), Absent)>>)
    /\ snapshot.prices[3].raw.symbol = "btc"
    /\ snapshot.prices[3].price = Some(MaxNum)

\* C10: when Bybit's ticker list is not empty, the change_24h reported in
\* Bybit's slot is 100 times the price24hPcnt of the first ticker, and null
\* when that field is absent or not a number; the point is Bybit's own, built
\* from the first ticker, whenever that ticker carries any field; an empty
\* list gives the data error instead of a point.
C10_BybitPercent ==
    (mpc = "done" /\ mresp[2].kind = "ok") =>
       LET items == mresp[2].payload
           point == snapshot.prices[2]
       IN IF items = <<>>
          THEN /\ point.source = "error"
               /\ point.raw = [message |-> "Bybit returned no ticker data for BTCUSDT"]
          ELSE /\ point.change_24h =
                     IF items[1].price24hPcnt.t = "num"
                     THEN Some(100 * items[1].price24hPcnt.n)
                     ELSE None
               /\ items[1] # Ticker(Absent, Absent, Absent) =>
                     point.source = "bybit" /\ point.raw = items[1]

\* C10 witness: two tickers, the first with fraction 2 and the second with
\* fraction 1: the reported change is 200.
C10_Witness ==
    /\ mpc = "done"
    /\ mresp[2].kind = "ok"
    /\ Len(mresp[2].payload) = 2
    /\ mresp[2].payload[1].price24hPcnt = JNum(2)
    /\ mresp[2].payload[2].price24hPcnt = JNum(1)
    /\ snapshot.prices[2].change_24h = Some(200)

----------------------------------------------------------------------------
\* C11: numeric coercion never raises: whenever a provider answers with a
\* payload (for Bybit and CoinCap, one holding an entry), its slot of the
\* snapshot is that provider's price point, never an error point, and each
\* Binance field reads as its number when it is one and as null otherwise.
C11_CoercionNeverRaises ==
    (mpc = "done") =>
       /\ \A i \in Tasks :
             (mresp[i].kind = "ok" /\ (i = 1 \/ mresp[i].payload # <<>>)) =>
                snapshot.prices[i].source = Providers[i]
       /\ mresp[1].kind = "ok" =>
             LET payload == mresp[1].payload
                 Read(v) == IF v.t = "num" THEN Some(v.n) ELSE None
             IN /\ snapshot.prices[1].price = Read(payload.lastPrice)
                /\ snapshot.prices[1].change_24h = Read(payload.priceChangePercent)
                /\ snapshot.prices[1].volume_24h = Read(payload.quoteVolume)

----------------------------------------------------------------------------
\* The HTML targets whose page was delivered, and the cap their feed is
\* built under.
HtmlDelivered == {i \in DOMAIN ntargets :
                    ntargets[i].name # "CryptoPanic" /\ nresp[i].kind = "ok"}
CapOf(i) == Min(ncap, ntargets[i].limit)

\* No two articles of a list carry the same URL.
DistinctUrls(items) ==
    \A j \in DOMAIN items : \A k \in DOMAIN items :
       j # k => items[j].url # items[k].url

\* C12: a page whose articles all come from the structured pass (it has no
\* fallback anchor) gives a feed in which no two articles carry the same
\* URL: of the <article> elements that resolve to one URL only the first
\* contributes.
C12_StructuredNoRepeat ==
    npc = "done" =>
       \A i \in HtmlDelivered :
          nresp[i].payload.anchors = <<>> =>
             DistinctUrls(aggregate.feeds[i].items)

\* C13: the fallback pass runs only when the structured pass gave fewer
\* articles than the cap; its articles follow the structured ones, carry no
\* summary and no date, and none repeats the URL of an article before it, so
\* the feed never holds one URL twice.
C13_FallbackNoRepeat ==
    npc = "done" =>
       \A i \in HtmlDelivered :
          LET items == aggregate.feeds[i].items
              first == Tier1(nresp[i].payload.articles, ntargets[i].url,
                             ntargets[i].name, CapOf(i), <<>>, {})
              n1 == Len(first.articles)
          IN (first.ok /\ nresults[i].ok) =>
                /\ Len(items) >= n1
                /\ SubSeq(items, 1, n1) = first.articles
                /\ n1 >= CapOf(i) => items = first.articles
                /\ \A k \in (n1 + 1)..Len(items) :
                      /\ items[k].summary = ""
                      /\ items[k].published_at = NoDate
                      /\ \A j \in 1..(k - 1) : items[j].url # items[k].url
                /\ DistinctUrls(items)

\* An <article> element meets the conditions of the structured pass: an
\* anchor with an href, a headline of at least 5 characters, and an href
\* that resolves against the base to an absolute http(s) URL.
Usable(element, base_url) ==
    /\ element.anchor
    /\ TitleLen(element.title) >= 5
    /\ urljoin(base_url, element.href).scheme \in {"http", "https"}
    /\ urljoin(base_url, element.href).host # ""

\* C14: whatever <article> elements a delivered page holds, the target does
\* not fail; every article of its feed has a headline of at least 5
\* characters and an absolute http(s) URL; and, while the cap is not
\* reached, every element that meets the conditions has its article in the
\* feed whatever the other elements are.
C14_UnusableElementSkipped ==
    npc = "done" =>
       \A i \in HtmlDelivered :
          LET items == aggregate.feeds[i].items
              elements == nresp[i].payload.articles
          IN /\ nresults[i].ok
             /\ \A k \in DOMAIN items :
                   /\ TitleLen(items[k].title) >= 5
                   /\ items[k].url.scheme \in {"http", "https"}
                   /\ items[k].url.host # ""
             /\ Len(items) < CapOf(i) =>
                   \A e \in DOMAIN elements :
                      Usable(elements[e], ntargets[i].url) =>
                         \E k \in DOMAIN items :
                            /\ items[k].title = elements[e].title
                            /\ items[k].url =
                                  HttpUrlStr(urljoin(ntargets[i].url, elements[e].href))

----------------------------------------------------------------------------
\* C15: however calls of get_http_client and shutdown_http_client
\* interleave, the client a get returns is open at the moment it is returned
\* (no close of it has started), and when a shutdown runs "_client = None"
\* the shared client is the one that shutdown closed.
C15_GetAndShutdownInterleave ==
    [][/\ \A p \in Getters :
             (gpc[p] # "done" /\ gpc'[p] = "done") =>
                cstate'[gret'[p]] = "open"
       /\ \A q \in Closers :
             (spc[q] = "closing" /\ spc'[q] = "done") =>
                client = starget[q]
      ]_vars

====
